---- MODULE Spec2Model ----
(***************************************************************************)
(* Hand-gesture volume control (src/control.py).                           *)
(*                                                                         *)
(* The control loop of main() is modelled step by step: acquire and detect *)
(* (lines 132-141), process_hand_landmarks (line 144, lines 40-94), the    *)
(* presentation helpers and imshow (lines 147-154), the key poll (lines    *)
(* 155-157), the KeyboardInterrupt handler (159-160) and the finally block *)
(* (162-164).                                                              *)
(*                                                                         *)
(* Numbers.  np.interp works on floats; the model computes the same values *)
(* exactly as rationals.  A value produced by interpolating over           *)
(* [MIN_LENGTH, MAX_LENGTH] is held as its numerator over the denominator  *)
(* Scale = MAX_LENGTH - MIN_LENGTH, so volume -21 is held as -21 * Scale.  *)
(* Landmark coordinates are normalised rationals n / Den; the frames drawn *)
(* as inputs are those whose fingertip distance math.hypot is an integer,  *)
(* so that the distance itself is exact.                                   *)
(***************************************************************************)
EXTENDS Integers, Sequences, FiniteSets

VARIABLES
    pc,                 \* position of main() in its loop / handlers
    success,            \* main: result flag of cap.read()
    results,            \* main: hands.process result, None or Some(hand)
    handLms,            \* main: last detected hand, None or Some(hand)
    length,             \* main: held fingertip distance
    volume_level,       \* main: level used by the presentation helpers
    key,                \* main: last cv2.waitKey result
    img,                \* overlays drawn on the current frame
    endpointLevel,      \* audio endpoint: master level last written
    calls,              \* audio endpoint calls made during the current frame
    open,               \* resources currently held: camera, audio, window
    releaseLog,         \* release calls made so far, in order
    exc,                \* exception in flight, None or Some(name)
    levelAtFrameStart,  \* history: endpointLevel when the frame was acquired
    lastMeasured,       \* history: distance measured in the last hand frame
    lastTry,            \* history: outcome and locals of this frame's try block
    probe               \* input/output of a pure function under test

vars == <<pc, success, results, handLms, length, volume_level, key, img,
          endpointLevel, calls, open, releaseLog, exc, levelAtFrameStart,
          lastMeasured, lastTry, probe>>

(***************************************************************************)
(* Optional values: None is Python's None, Some(x) a present value.        *)
(***************************************************************************)
None == <<>>
Some(x) == <<x>>
Get(o) == o[1]

(***************************************************************************)
(* Program constants (src/control.py lines 10-21).                         *)
(***************************************************************************)
MIN_LENGTH == 50
MAX_LENGTH == 300
MIN_VOLUME == -21
MAX_VOLUME == 0
VOLUME_BAR_COLOR_LOW == <<0, 255, 0>>
VOLUME_BAR_COLOR_HIGH == <<0, 0, 255>>
VOLUME_BAR_COLOR_MUTE == <<0, 0, 0>>
QuitKey == 27

\* Colour names of the BGR triples used by the drawing calls.
Green == <<0, 255, 0>>
Red == <<0, 0, 255>>

(***************************************************************************)
(* Bounds of the model.                                                    *)
(***************************************************************************)
\* Landmark coordinates are the rationals n / Den, n in 0..Den.
Den == 64
\* The message function is probed on levels this far beyond [-21, 0].
ProbeMargin == 1

\* img.shape of a camera frame: <<h, w, c>>.
FrameShape == <<480, 640, 3>>

\* Denominator of every value interpolated over [MIN_LENGTH, MAX_LENGTH].
Scale == MAX_LENGTH - MIN_LENGTH

(***************************************************************************)
(* Python's int(): truncation toward zero of the rational n / d, d > 0.    *)
(***************************************************************************)
IntTrunc(n, d) == IF n >= 0 THEN n \div d ELSE -((-n) \div d)

Abs(n) == IF n >= 0 THEN n ELSE -n

(***************************************************************************)
(* np.interp(x, xp, fp) for two sample points, x = xn / xd.  The result is *)
(* returned as its numerator over xd * (xp[2] - xp[1]).  Outside           *)
(* [xp[1], xp[2]] np.interp returns the end values.                        *)
(***************************************************************************)
Interp(xn, xd, xp, fp) ==
    LET w == xd * (xp[2] - xp[1]) IN
    IF xn <= xp[1] * xd THEN fp[1] * w
    ELSE IF xn >= xp[2] * xd THEN fp[2] * w
    ELSE fp[1] * w + (fp[2] - fp[1]) * (xn - xp[1] * xd)

\* The same line without the clamp at the end points.
calculate_volume_unclamped(len) ==
    MIN_VOLUME * Scale + (MAX_VOLUME - MIN_VOLUME) * (len - MIN_LENGTH)

\* calculate_volume: numerator over Scale.
calculate_volume(len) ==
    Interp(len, 1, <<MIN_LENGTH, MAX_LENGTH>>, <<MIN_VOLUME, MAX_VOLUME>>)

\* The bar position with its range not inverted.
calculate_volume_bar_upright(len) ==
    Interp(len, 1, <<MIN_LENGTH, MAX_LENGTH>>, <<10, 600>>)

\* calculate_volume_bar: numerator over Scale.
calculate_volume_bar(len) ==
    Interp(len, 1, <<MIN_LENGTH, MAX_LENGTH>>, <<600, 10>>)

\* calculate_volume_percentage: numerator over Scale.
calculate_volume_percentage(len) ==
    Interp(len, 1, <<MIN_LENGTH, MAX_LENGTH>>, <<0, 100>>)

(***************************************************************************)
(* Inputs.  A hand is <<thumb tip, index tip>> (landmarks 4 and 8), each   *)
(* landmark <<xn, yn>> standing for the normalised point (xn/Den, yn/Den). *)
(***************************************************************************)
NormXs == {0, 5, 16, 29, 30, 35}
NormYs == {0, 16}
ThumbPts == {<<0, 0>>, <<5, 0>>}
Keys == {-1, QuitKey, 13, 113}
Outcomes == {"ok", "SetMasterVolumeLevel raised", "GetMute raised"}

\* Lines 44-45: cx, cy = int(lm.x * w), int(lm.y * h).
Pixel(lm) ==
    <<IntTrunc(lm[1] * FrameShape[2], Den), IntTrunc(lm[2] * FrameShape[1], Den)>>

IsExactHypot(dx, dy) ==
    \E n \in 0..(Abs(dx) + Abs(dy)) : n * n = dx * dx + dy * dy

\* math.hypot on pixel differences whose norm is an integer.
Hypot(dx, dy) ==
    CHOOSE n \in 0..(Abs(dx) + Abs(dy)) : n * n = dx * dx + dy * dy

HandInputs ==
    {h \in ThumbPts \X (NormXs \X NormYs) :
        IsExactHypot(Pixel(h[2])[1] - Pixel(h[1])[1],
                     Pixel(h[2])[2] - Pixel(h[1])[2])}

\* Line 56: the fingertip distance of a hand.
MeasureLength(hand) ==
    Hypot(Pixel(hand[2])[1] - Pixel(hand[1])[1],
          Pixel(hand[2])[2] - Pixel(hand[1])[2])

(***************************************************************************)
(* A frame and its overlays.                                               *)
(***************************************************************************)
BlankImg ==
    [frame |-> TRUE, landmarks |-> FALSE, tips |-> None, center |-> None,
     barColor |-> None, barTop |-> None, percent |-> None,
     instructions |-> FALSE, flash |-> None, indicatorY |-> None,
     message |-> "", shown |-> FALSE]

NoImg == [BlankImg EXCEPT !.frame = FALSE]

\* No process_hand_landmarks call in this frame yet.
NoTry ==
    [outcome |-> "none", volume_level |-> None, volBar |-> None, volPer |-> None]

(***************************************************************************)
(* The audio endpoint calls of one process_hand_landmarks call, lines      *)
(* 65-66 under the try of line 60: the level is set, then the mute state   *)
(* is read; a call that raises ends the block.                             *)
(***************************************************************************)
SetCall(v, ok) == [op |-> "SetMasterVolumeLevel", arg |-> Some(v), ok |-> ok]
GetMuteCall(ok) == [op |-> "GetMute", arg |-> None, ok |-> ok]

\* The set attempted a second time after it raised.
AudioCalls_retry(v, outcome) ==
    IF outcome = "SetMasterVolumeLevel raised"
    THEN <<SetCall(v, FALSE), SetCall(v, FALSE)>>
    ELSE IF outcome = "GetMute raised"
    THEN <<SetCall(v, TRUE), GetMuteCall(FALSE)>>
    ELSE <<SetCall(v, TRUE), GetMuteCall(TRUE)>>

\* The mute state read before the level is set.
AudioCalls_mute_first(v, outcome) ==
    IF outcome = "SetMasterVolumeLevel raised"
    THEN <<GetMuteCall(TRUE), SetCall(v, FALSE)>>
    ELSE IF outcome = "GetMute raised"
    THEN <<GetMuteCall(FALSE)>>
    ELSE <<GetMuteCall(TRUE), SetCall(v, TRUE)>>

AudioCalls(v, outcome) ==
    IF outcome = "SetMasterVolumeLevel raised"
    THEN <<SetCall(v, FALSE)>>
    ELSE IF outcome = "GetMute raised"
    THEN <<SetCall(v, TRUE), GetMuteCall(FALSE)>>
    ELSE <<SetCall(v, TRUE), GetMuteCall(TRUE)>>

IsGoodSet(c) == c.op = "SetMasterVolumeLevel" /\ c.ok

\* The endpoint's master level after a sequence of calls.
LevelAfter(level, cs) ==
    LET sets == SelectSeq(cs, IsGoodSet) IN
    IF sets = <<>> THEN level ELSE sets[Len(sets)].arg

(***************************************************************************)
(* process_hand_landmarks (lines 40-94) on a detected hand.  outcome says  *)
(* how the audio calls end, mute is what GetMute returns.  The result      *)
(* holds the frame as drawn, the returned length, the audio calls made and  *)
(* the locals computed by lines 61-63.                                     *)
(***************************************************************************)
process_hand_landmarks(hand, im, outcome, mute) ==
    LET p1 == Pixel(hand[1])
        p2 == Pixel(hand[2])
        len == MeasureLength(hand)
        im1 == [im EXCEPT
                  !.tips = Some(<<p1, p2>>),
                  !.center = IF len < MIN_LENGTH
                             THEN Some(<<(p1[1] + p2[1]) \div 2,
                                         (p1[2] + p2[2]) \div 2>>)
                             ELSE None]
        vl == calculate_volume(len)
        volBar == calculate_volume_bar(len)
        volPer == calculate_volume_percentage(len)
        vol_color == IF mute THEN VOLUME_BAR_COLOR_MUTE
                     ELSE IF vl < 0 THEN VOLUME_BAR_COLOR_LOW
                     ELSE VOLUME_BAR_COLOR_HIGH
        im2 == [im1 EXCEPT
                  !.barColor = Some(vol_color),
                  !.barTop = Some(IntTrunc(volBar, Scale)),
                  !.percent = Some(IntTrunc(volPer, Scale)),
                  !.instructions = TRUE,
                  !.flash = IF Abs(vl) > 1 * Scale
                            THEN Some(IF vl > 0 THEN <<0, 255, 0>>
                                      ELSE <<0, 0, 255>>)
                            ELSE None]
    IN  [img |-> IF outcome = "ok" THEN im2 ELSE im1,
         length |-> len,
         calls |-> AudioCalls(vl, outcome),
         try |-> [outcome |-> outcome, volume_level |-> Some(vl),
                  volBar |-> Some(volBar), volPer |-> Some(volPer)]]

(***************************************************************************)
(* Presentation helpers.                                                   *)
(***************************************************************************)
\* display_volume_indicator, line 99: the indicator's y for level vn/Scale.
display_volume_indicator(vn) ==
    IntTrunc(Interp(vn, Scale, <<MIN_VOLUME, MAX_VOLUME>>, <<400, 150>>),
             Scale * (MAX_VOLUME - MIN_VOLUME))

HighMessage == "Volume is high! Lower it down a bit."
ModerateMessage == "Volume is moderate. Enjoy your music!"
LowMessage == "Volume is low. Turn it up for a better experience!"

\* The thresholds compared with >= instead of >.
display_volume_message_inclusive(vn) ==
    IF vn >= -5 * Scale THEN HighMessage
    ELSE IF vn >= -12 * Scale THEN ModerateMessage
    ELSE LowMessage

\* display_volume_message, lines 104-109, for level vn/Scale.
display_volume_message(vn) ==
    IF vn > -5 * Scale THEN HighMessage
    ELSE IF vn > -12 * Scale THEN ModerateMessage
    ELSE LowMessage

(***************************************************************************)
(* main(): the state after lines 117-128.                                  *)
(***************************************************************************)
RunningPcs == {"read", "process", "present", "poll"}

\* The control loop is RUNNING while main is inside the while loop.
Running == pc \in RunningPcs
Stopped == ~Running

MainInit ==
    /\ pc = "read"
    /\ success = FALSE
    /\ results = None
    /\ handLms = None
    /\ length = MAX_LENGTH
    /\ volume_level = None
    /\ key = -1
    /\ img = NoImg
    /\ endpointLevel = None
    /\ calls = <<>>
    /\ open = {"camera", "audio"}
    /\ releaseLog = <<>>
    /\ exc = None
    /\ levelAtFrameStart = None
    /\ lastMeasured = None
    /\ lastTry = NoTry

Init == MainInit /\ probe = None

\* What a new frame resets, whatever it shows.
NewFrame ==
    /\ levelAtFrameStart' = endpointLevel
    /\ calls' = <<>>
    /\ lastTry' = NoTry

(***************************************************************************)
(* Lines 132-133 when the capture fails: cap.read() returns (False, None)  *)
(* and cv2.cvtColor raises cv2.error on the missing image.  No except      *)
(* clause of main matches it, so control goes to the finally block with    *)
(* the exception in flight.                                                *)
(***************************************************************************)
CaptureFails ==
    /\ pc = "read"
    /\ success' = FALSE
    /\ img' = NoImg
    /\ exc' = Some("cv2.error")
    /\ pc' = "finally"
    /\ NewFrame
    /\ UNCHANGED <<results, handLms, length, volume_level, key, endpointLevel,
                   open, releaseLog, lastMeasured, probe>>

(***************************************************************************)
(* Lines 132-141 when a hand is detected: handLms is the first hand and    *)
(* its landmarks are drawn.                                                *)
(***************************************************************************)
DetectHand ==
    /\ pc = "read"
    /\ \E hand \in HandInputs :
          /\ results' = Some(hand)
          /\ handLms' = Some(hand)
    /\ success' = TRUE
    /\ img' = [BlankImg EXCEPT !.landmarks = TRUE]
    /\ pc' = "process"
    /\ NewFrame
    /\ UNCHANGED <<length, volume_level, key, endpointLevel, open, releaseLog,
                   exc, lastMeasured, probe>>

\* The held distance dropped to zero in a frame without a hand.
HeldLength_reset(held) == 0

\* Lines 136-147: without a hand nothing is assigned to length.
HeldLength(held) == held

(***************************************************************************)
(* Lines 132-136 when no hand is detected: the branch of line 136 is       *)
(* skipped, handLms and length keep their values.                          *)
(***************************************************************************)
DetectNoHand ==
    /\ pc = "read"
    /\ success' = TRUE
    /\ results' = None
    /\ img' = BlankImg
    /\ length' = HeldLength(length)
    /\ pc' = "present"
    /\ NewFrame
    /\ UNCHANGED <<handLms, volume_level, key, endpointLevel, open, releaseLog,
                   exc, lastMeasured, probe>>

(***************************************************************************)
(* Line 144: length = process_hand_landmarks(handLms, img, volume).        *)
(***************************************************************************)
ProcessHand ==
    /\ pc = "process"
    /\ \E outcome \in Outcomes, mute \in BOOLEAN :
          LET r == process_hand_landmarks(Get(handLms), img, outcome, mute) IN
          /\ img' = r.img
          /\ length' = r.length
          /\ calls' = calls \o r.calls
          /\ endpointLevel' = LevelAfter(endpointLevel, r.calls)
          /\ lastTry' = r.try
    /\ lastMeasured' = Some(MeasureLength(Get(results)))
    /\ pc' = "present"
    /\ UNCHANGED <<success, results, handLms, volume_level, key, open,
                   releaseLog, exc, levelAtFrameStart, probe>>

(***************************************************************************)
(* Lines 147-154: the level of the held length, the indicator, the message *)
(* and imshow.  display_hand_icon (lines 112-114) has no body and draws    *)
(* nothing.                                                                *)
(***************************************************************************)
Present ==
    /\ pc = "present"
    /\ LET vl == calculate_volume(length) IN
          /\ volume_level' = Some(vl)
          /\ img' = [img EXCEPT !.indicatorY = Some(display_volume_indicator(vl)),
                                !.message = display_volume_message(vl),
                                !.shown = TRUE]
    /\ open' = open \cup {"window"}
    /\ pc' = "poll"
    /\ UNCHANGED <<success, results, handLms, length, key, endpointLevel, calls,
                   releaseLog, exc, levelAtFrameStart, lastMeasured,
                   lastTry, probe>>

\* Any key pressed ends the loop.
IsQuit_any_key(k) == k /= -1

\* Line 156: if key == 27.
IsQuit(k) == k = QuitKey

(***************************************************************************)
(* Lines 155-157: key = cv2.waitKey(1); break on the Esc key.              *)
(***************************************************************************)
PollKey ==
    /\ pc = "poll"
    /\ \E k \in Keys :
          /\ key' = k
          /\ pc' = IF IsQuit(k) THEN "finally" ELSE "read"
    /\ UNCHANGED <<success, results, handLms, length, volume_level, img,
                   endpointLevel, calls, open, releaseLog, exc,
                   levelAtFrameStart, lastMeasured, lastTry, probe>>

(***************************************************************************)
(* A KeyboardInterrupt raised while main is inside the try body (lines     *)
(* 131-157).  It is no Exception, so the except clause of line 91 does not *)
(* catch it either: control goes to the handler of line 159.               *)
(***************************************************************************)
Interrupt ==
    /\ Running
    /\ pc' = "except"
    /\ UNCHANGED <<success, results, handLms, length, volume_level, key, img,
                   endpointLevel, calls, open, releaseLog, exc,
                   levelAtFrameStart, lastMeasured, lastTry, probe>>

\* Lines 159-160: the interrupt is reported and swallowed.
ExceptHandler ==
    /\ pc = "except"
    /\ pc' = "finally"
    /\ UNCHANGED <<success, results, handLms, length, volume_level, key, img,
                   endpointLevel, calls, open, releaseLog, exc,
                   levelAtFrameStart, lastMeasured, lastTry, probe>>

\* The cleanup without the call that closes the windows.
Cleanup_no_windows(log, held) ==
    [log |-> Append(log, "cap.release"), open |-> held \ {"camera"}]

\* The cleanup releasing the audio endpoint as well.
Cleanup_with_audio(log, held) ==
    [log |-> log \o <<"cap.release", "cv2.destroyAllWindows", "audio.Release">>,
     open |-> held \ {"camera", "window", "audio"}]

\* Lines 163-164: cap.release(); cv2.destroyAllWindows().
Cleanup(log, held) ==
    [log |-> log \o <<"cap.release", "cv2.destroyAllWindows">>,
     open |-> held \ {"camera", "window"}]

(***************************************************************************)
(* Lines 162-164: the finally block, after which main returns or the       *)
(* exception in flight propagates.                                         *)
(***************************************************************************)
Finally ==
    /\ pc = "finally"
    /\ releaseLog' = Cleanup(releaseLog, open).log
    /\ open' = Cleanup(releaseLog, open).open
    /\ pc' = IF exc = None THEN "returned" ELSE "raised"
    /\ UNCHANGED <<success, results, handLms, length, volume_level, key, img,
                   endpointLevel, calls, exc, levelAtFrameStart, lastMeasured,
                   lastTry, probe>>

Next ==
    \/ CaptureFails
    \/ DetectHand
    \/ DetectNoHand
    \/ ProcessHand
    \/ Present
    \/ PollKey
    \/ Interrupt
    \/ ExceptHandler
    \/ Finally

Spec == Init /\ [][Next]_vars

(***************************************************************************)
(* display_volume_message applied to a level drawn from the rationals      *)
(* n / Scale around [MIN_VOLUME, MAX_VOLUME].                              *)
(***************************************************************************)
ProbeLevels ==
    ((MIN_VOLUME - ProbeMargin) * Scale)..((MAX_VOLUME + ProbeMargin) * Scale)

MessageInit ==
    /\ MainInit
    /\ \E v \in ProbeLevels : probe = [v |-> v, message |-> None]

ApplyMessage ==
    /\ probe.message = None
    /\ probe' = [probe EXCEPT !.message = Some(display_volume_message(probe.v))]
    /\ UNCHANGED <<pc, success, results, handLms, length, volume_level, key,
                   img, endpointLevel, calls, open, releaseLog, exc,
                   levelAtFrameStart, lastMeasured, lastTry>>

MessageNext == ApplyMessage

MessageSpec == MessageInit /\ [][MessageNext]_vars

(***************************************************************************)
(* Properties.                                                             *)
(***************************************************************************)
IsSet(c) == c.op = "SetMasterVolumeLevel"
SetCalls == SelectSeq(calls, IsSet)
ExitPcs == {"returned", "raised"}
AudioFailed == lastTry.outcome \in {"SetMasterVolumeLevel raised", "GetMute raised"}
NoHandFrame == success /\ results = None /\ pc \in {"present", "poll"}
VolumeOverlayAbsent ==
    /\ img.barColor = None
    /\ img.barTop = None
    /\ img.percent = None
    /\ img.instructions = FALSE
    /\ img.flash = None

\* C1: every level passed to SetMasterVolumeLevel is the clamped linear map
\* of the distance d measured in that frame: -21 for d <= 50, 0 for d >= 300,
\* the point of the line through (50,-21) and (300,0) in between, and so it
\* lies in [-21, 0].  Levels are numerators over 250.
C1_VolumeClampedLinear ==
    \A i \in 1..Len(calls) :
        IsSet(calls[i]) =>
            LET v == Get(calls[i].arg)
                d == Get(lastMeasured)
            IN  /\ lastMeasured /= None
                /\ d <= 50 => v = -21 * 250
                /\ d >= 300 => v = 0
                /\ (50 < d /\ d < 300) =>
                       /\ v = -21 * 250 + 21 * (d - 50)
                       /\ -21 * 250 < v /\ v < 0
                /\ -21 * 250 <= v /\ v <= 0

\* A frame in which a distance strictly inside (50, 300) was applied.
C1_Witness ==
    /\ pc = "present"
    /\ lastMeasured = Some(160)
    /\ calls /= <<>>
    /\ calls[1] = SetCall(-2940, TRUE)

\* C2: in a frame without a hand the held length is the distance measured
\* in the most recent hand frame, or 300 if no hand was ever detected, and
\* the level shown by the indicator and the message is calculate_volume of
\* that held length.
C2_HeldDistanceReused ==
    NoHandFrame =>
        /\ lastMeasured = None => length = 300
        /\ lastMeasured /= None => length = Get(lastMeasured)
        /\ pc = "poll" =>
              /\ volume_level = Some(calculate_volume(length))
              /\ img.indicatorY =
                    Some(display_volume_indicator(calculate_volume(length)))
              /\ img.message = display_volume_message(calculate_volume(length))

\* A frame without a hand shown after a hand frame that measured 120.
C2_Witness ==
    /\ NoHandFrame
    /\ pc = "poll"
    /\ lastMeasured = Some(120)
    /\ length = 120
    /\ volume_level = Some(-3780)

\* C3: until the finally block has run nothing is released; once main has
\* returned or the exception has propagated, the camera was released and the
\* windows were closed exactly once each, whichever way the loop was left.
C3_CleanupExactlyOnce ==
    /\ pc \notin ExitPcs => releaseLog = <<>> /\ "camera" \in open
    /\ pc \in ExitPcs =>
          /\ releaseLog = <<"cap.release", "cv2.destroyAllWindows">>
          /\ "camera" \notin open
          /\ "window" \notin open
    /\ pc = "raised" => exc /= None
    /\ pc = "returned" => exc = None

\* The loop left by an exception other than KeyboardInterrupt, after the
\* first frame had been shown.
C3_Witness ==
    /\ pc = "raised"
    /\ exc = Some("cv2.error")
    /\ key /= QuitKey
    /\ volume_level /= None
    /\ releaseLog = <<"cap.release", "cv2.destroyAllWindows">>

\* C4 as stated: once main has left the loop and cleaned up, the audio
\* endpoint handle has been released too.
C4_AudioReleasedAtExit ==
    pc \in ExitPcs => "audio" \notin open

\* C4 as amended: main never releases the audio endpoint handle; the cleanup
\* block releases the camera and closes the windows only, so the handle is
\* still held when main returns or the exception propagates.
C4_AudioNeverReleased ==
    /\ "audio" \in open
    /\ \A i \in 1..Len(releaseLog) : releaseLog[i] /= "audio.Release"
    /\ pc \in ExitPcs => "camera" \notin open

\* main has returned after the quit key: camera released, audio still held.
C4_Witness ==
    /\ pc = "returned"
    /\ key = QuitKey
    /\ "camera" \notin open
    /\ "audio" \in open

\* C5: when an audio call fails in a hand frame, no exception is in flight,
\* the bar, percentage, instructions and flash are not drawn, the measured
\* distance is the held length, the set was attempted once only, and the
\* step that made the call leaves the loop RUNNING, about to present the
\* frame; the next poll without quit key or interrupt acquires a new frame.
C5_FailureState ==
    AudioFailed =>
        /\ exc = None
        /\ pc /= "raised"
        /\ VolumeOverlayAbsent
        /\ results /= None
        /\ length = MeasureLength(Get(results))
        /\ Len(SetCalls) = 1
        /\ Len(calls) <= 2

C5_AudioFailureSwallowed ==
    /\ []C5_FailureState
    /\ [][(pc = "process" /\ AudioFailed') => pc' = "present"]_vars
    /\ [][(AudioFailed /\ pc = "poll" /\ pc' /= "except" /\ key' /= QuitKey)
            => pc' = "read"]_vars

\* GetMute has failed in a frame that is about to be presented.
C5_Witness ==
    /\ pc = "present"
    /\ lastTry.outcome = "GetMute raised"
    /\ Len(calls) = 2
    /\ VolumeOverlayAbsent
    /\ length = 160

\* C6: the loop starts RUNNING; it stops only by the quit key at the poll,
\* an interrupt, or a failed capture, and each of these stops it; any other
\* poll result keeps it RUNNING; once stopped, no frame is acquired,
\* processed or displayed.
C6_StopsExactlyOn ==
    /\ Running
    /\ [][(Running /\ Stopped') =>
             \/ pc = "poll" /\ key' = 27
             \/ pc' = "except"
             \/ pc = "read" /\ ~success' /\ exc' /= None]_vars
    /\ [][(pc = "poll" /\ pc' /= "except") => (Stopped' <=> key' = 27)]_vars
    /\ [][(pc = "read" /\ pc' /= "except" /\ ~success') => Stopped']_vars
    /\ [][Stopped =>
             UNCHANGED <<success, results, handLms, length, volume_level, key,
                         img, endpointLevel, calls>>]_vars

\* A poll that returned another key, after which the next frame is awaited.
C6_Witness ==
    /\ pc = "read"
    /\ key = 13
    /\ img.shown

\* C7: the message is the high one iff v > -5, the moderate one iff
\* -12 < v <= -5, the low one iff v <= -12 (v = probe.v / 250).
C7_MessageBands ==
    probe.message /= None =>
        LET v == probe.v
            m == Get(probe.message)
        IN  /\ m = HighMessage <=> v > -5 * 250
            /\ m = ModerateMessage <=> (-12 * 250 < v /\ v <= -5 * 250)
            /\ m = LowMessage <=> v <= -12 * 250
            /\ m \in {HighMessage, ModerateMessage, LowMessage}

\* The message chosen at exactly -5.
C7_Witness ==
    /\ probe.v = -5 * 250
    /\ probe.message = Some(ModerateMessage)

\* C8: in a hand frame the bar position is 600 for d <= 50, 10 for d >= 300
\* and the point of the decreasing line in between; the percentage is 0,
\* 100 and the point of the increasing line; what is drawn is their integer
\* part, in [10, 600] and [0, 100].  Values are numerators over 250.
C8_BarAndPercentClamped ==
    lastTry.outcome /= "none" =>
        LET d == Get(lastMeasured)
            bar == Get(lastTry.volBar)
            per == Get(lastTry.volPer)
        IN  /\ d <= 50 => bar = 600 * 250 /\ per = 0
            /\ d >= 300 => bar = 10 * 250 /\ per = 100 * 250
            /\ (50 < d /\ d < 300) =>
                   /\ bar = 600 * 250 - 590 * (d - 50)
                   /\ per = 100 * (d - 50)
                   /\ 10 * 250 < bar /\ bar < 600 * 250
                   /\ 0 < per /\ per < 100 * 250
            /\ lastTry.outcome = "ok" =>
                   /\ img.barTop = Some(bar \div 250)
                   /\ img.percent = Some(per \div 250)
                   /\ Get(img.barTop) \in 10..600
                   /\ Get(img.percent) \in 0..100

\* A hand frame with distance 130: bar 411.2 drawn at 411, 32 percent.
C8_Witness ==
    /\ lastTry.outcome = "ok"
    /\ lastMeasured = Some(130)
    /\ lastTry.volBar = Some(102800)
    /\ img.barTop = Some(411)
    /\ img.percent = Some(32)

\* C9 as stated: after a successful apply the flash is drawn iff the
\* magnitude of the applied level exceeds 1.0, and it is green when the
\* level rose from the level applied before and red when it fell.
C9_FlashFollowsChange ==
    (lastTry.outcome = "ok" /\ pc = "present") =>
        LET v == Get(lastTry.volume_level) IN
        /\ img.flash /= None <=> Abs(v) > 250
        /\ (img.flash /= None /\ levelAtFrameStart /= None) =>
              /\ v > Get(levelAtFrameStart) => img.flash = Some(Green)
              /\ v < Get(levelAtFrameStart) => img.flash = Some(Red)

\* C10: a frame without a hand makes no audio call and leaves the endpoint
\* as it was, while the indicator and message are drawn; a hand frame sets
\* the level at most once, to calculate_volume of the distance measured in
\* that frame, before any read of the mute state.
C10_AudioWrittenOnlyOnHand ==
    /\ NoHandFrame =>
          /\ calls = <<>>
          /\ endpointLevel = levelAtFrameStart
          /\ pc = "poll" => img.indicatorY /= None /\ img.message /= ""
    /\ calls /= <<>> =>
          /\ results /= None
          /\ Len(SetCalls) = 1
          /\ IsSet(calls[1])
          /\ calls[1].arg = Some(calculate_volume(MeasureLength(Get(results))))
    /\ endpointLevel /= levelAtFrameStart =>
          /\ calls /= <<>>
          /\ calls[1].ok
          /\ endpointLevel = calls[1].arg

\* A frame without a hand, shown while the endpoint keeps an older level.
C10_Witness ==
    /\ NoHandFrame
    /\ pc = "poll"
    /\ endpointLevel = Some(-2940)
    /\ calls = <<>>
    /\ img.indicatorY /= None

====
